---- MODULE Spec2Model ----
(***************************************************************************)
(* A model of mpv-mqtt-controller.py: the MPVController (playlist, player  *)
(* process, IPC session, observation thread, playback state, debounce) and *)
(* the MQTTClient (command dispatch, forced publishes, periodic tick).     *)
(*                                                                         *)
(* Threads of the program and how they appear here:                        *)
(*   - the bus loop thread runs on_connect and on_message one at a time;   *)
(*     its position is cmdpc, and each call it makes is one step;          *)
(*   - the observation thread folds one decoded event per step;            *)
(*   - the timer thread runs check_and_publish_state, one statement per    *)
(*     step, its position is tickpc.                                       *)
(* Nothing in the program serializes these threads, so their steps         *)
(* interleave freely.                                                      *)
(*                                                                         *)
(* Units: positions and times are in tenths of a second, volumes in        *)
(* percent.  A path is a sequence of tokens, "/" being the separator.      *)
(***************************************************************************)
EXTENDS Integers, Sequences, FiniteSets, TLC

(* ------------------------------------------------------------------ *)
(* Program constants                                                   *)
(* ------------------------------------------------------------------ *)
PublishInterval == 10
TimerPeriod == 5
PositionDelta == 5
VolumeDelta == 1
InitialVolume == 100

(* ------------------------------------------------------------------ *)
(* Bounds of the model                                                 *)
(* ------------------------------------------------------------------ *)
MaxTime == 15
MaxOrphans == 1
MaxThreads == 2
MaxTimers == 3

(* ------------------------------------------------------------------ *)
(* Values                                                              *)
(* ------------------------------------------------------------------ *)
None == <<"None">>
Sep == "/"
PathA == <<Sep, "media", Sep, "a.mp4">>
PathB == <<Sep, "media", Sep, "b.mp4">>
PathDir == <<Sep, "media", Sep>>
PathBare == <<"c.mp4">>

Abs(n) == IF n < 0 THEN -n ELSE n

\* F applied to the value of v, the value being computed once
With(v, F(_)) == CHOOSE r \in {F(x) : x \in {v}} : TRUE

\* a list with its elements computed
AsList(f) == f \o <<>>

\* str.lower() on one token
LowerToken(t) ==
    CASE t = "A" -> "a"
      [] t = "PLAY" -> "play"
      [] t = "Seek" -> "seek"
      [] OTHER -> t

\* str.lower()
Lower(str) == [i \in 1..Len(str) |-> LowerToken(str[i])]

\* os.path.basename: what follows the last separator (the whole path when
\* it holds none, the empty string when the path ends with one).
RECURSIVE LastSep(_, _)
LastSep(p, i) ==
    IF i = 0 THEN 0
    ELSE IF p[i] = Sep THEN i
    ELSE LastSep(p, i - 1)

Basename(p) == SubSeq(p, LastSep(p, Len(p)) + 1, Len(p))

InitialState ==
    [state |-> "idle", media_content_id |-> None, media_title |-> None,
     volume |-> InitialVolume, position |-> 0, duration |-> 0]

VARIABLES
    \* MPVController
    mpv_process,        \* "none" | "running" | "exited": the Popen handle
    mpv_log_handle,     \* "none" | "open"
    playlist,           \* sequence of paths
    is_playing,
    current_state,
    previous_state,
    ipc_socket,         \* "none" | "connected"
    observation_thread, \* "none" | "alive" | "dead"
    stop_observation,
    last_publish_time,
    \* MQTTClient
    publish_timer,      \* "none" | "pending"; where timers is used, the
                        \* Timer it refers to (0: None)
    \* the environment
    media_dir,          \* [exists, files]
    playlist_file,      \* [exists, lines]
    orphans,            \* live player processes no handle refers to any more
    now,
    \* positions of the threads and what they have done
    cmdpc,              \* where the bus loop thread is in on_message
    cmd,                \* the command it is handling ("none" between two)
    afterStop,          \* the last command handled was a stop
    cmdOutcome,         \* how the call it made last came out
    tickpc,
    lastPub,            \* the retained document: [doc, by, active]
    \* the functions under test (process_event, should_publish_state)
    fpc, ev, pre, log, sp,
    \* the dispatch of on_message on its own
    payload,            \* the message received
    command,            \* what line 483 made of it
    sent,               \* what was written to the player: [adhoc, session]
    \* prepare_playlist on its own
    walk,               \* the loop over os.walk: [stack, visited, out]
    scans,              \* how many builds have scanned the directory
    built,              \* what the last build that scanned has returned
    \* the observation threads one by one
    threads,            \* of each thread: where it is and the event it holds
    handle,             \* the thread observation_thread refers to (0: none)
    \* the wait of start_mpv_drm for the control socket
    socket_wait_time,   \* in tenths of a second
    socket_file,        \* "absent" | "present": the file at socket_path
    \* the Timer objects of start_publish_timer one by one
    timers              \* of each: its state, the event finished, its position

ctlVars == <<mpv_process, mpv_log_handle, playlist, is_playing, current_state,
             previous_state, ipc_socket, observation_thread, stop_observation,
             last_publish_time>>
envVars == <<media_dir, playlist_file, orphans, now>>
cmdVars == <<cmdpc, cmd, afterStop, cmdOutcome>>
partVars == <<payload, command, sent, walk, scans, built, threads, handle,
              socket_wait_time, socket_file, timers>>
fnVars == <<fpc, ev, pre, log, sp, partVars>>
vars == <<ctlVars, publish_timer, envVars, cmdVars, tickpc, lastPub, fnVars>>

(* ------------------------------------------------------------------ *)
(* Decoded events.  An event is a record; a missing key is a missing   *)
(* field.  A datum is tagged with its JSON type.                       *)
(* ------------------------------------------------------------------ *)
Null == [tag |-> "null"]
Bool(b) == [tag |-> "bool", bool |-> b]
Num(n) == [tag |-> "num", num |-> n]
Str(s) == [tag |-> "str", str |-> s]

PropertyChange(n, d) == [event |-> "property-change", name |-> n, data |-> d]

\* dict.get(key): None when the key is missing
Get(e, k) == IF k \in DOMAIN e THEN e[k] ELSE Null
GetName(e) == IF "name" \in DOMAIN e THEN e.name ELSE "<none>"

\* Python truthiness of a datum
Truthy(d) ==
    CASE d.tag = "bool" -> d.bool
      [] d.tag = "num" -> d.num # 0
      [] d.tag = "str" -> Len(d.str) > 0
      [] OTHER -> FALSE

\* process_event with the "only if changed" test of the path branch left out
process_event_NoGuard(cs, e) ==
    IF "event" \in DOMAIN e /\ e.event = "property-change"
    THEN LET name == GetName(e)
             data == Get(e, "data")
         IN  IF name = "path" /\ Truthy(data)
             THEN [state |-> [cs EXCEPT !.media_content_id = data.str,
                                        !.media_title = Basename(data.str)],
                   log |-> "Now playing"]
             ELSE [state |-> cs, log |-> "none"]
    ELSE [state |-> cs, log |-> "none"]

\* process_event with the time-pos branch writing the duration
process_event_WrongField(cs, e) ==
    IF "event" \in DOMAIN e /\ e.event = "property-change"
          /\ GetName(e) = "time-pos" /\ Get(e, "data").tag # "null"
    THEN [state |-> [cs EXCEPT !.duration = Get(e, "data").num], log |-> "none"]
    ELSE [state |-> cs, log |-> "none"]

\* MPVController.process_event: the state after folding e into cs, and the
\* line it prints ("none" when it prints nothing)
process_event(cs, e) ==
    IF "event" \in DOMAIN e /\ e.event = "property-change"
    THEN LET name == GetName(e)
             data == Get(e, "data")
         IN  IF name = "pause"
             THEN LET new_state == IF Truthy(data) THEN "paused" ELSE "playing"
                  IN  IF cs.state # new_state
                      THEN [state |-> [cs EXCEPT !.state = new_state],
                            log |-> "Playback state"]
                      ELSE [state |-> cs, log |-> "none"]
             ELSE IF name = "path" /\ Truthy(data)
             THEN LET new_content_id == data.str
                      new_title == Basename(data.str)
                  IN  IF cs.media_content_id # new_content_id
                           \/ cs.media_title # new_title
                      THEN [state |-> [cs EXCEPT
                                         !.media_content_id = new_content_id,
                                         !.media_title = new_title],
                            log |-> "Now playing"]
                      ELSE [state |-> cs, log |-> "none"]
             ELSE IF name = "time-pos" /\ data.tag # "null"
             THEN [state |-> [cs EXCEPT !.position = data.num], log |-> "none"]
             ELSE IF name = "duration" /\ data.tag # "null"
             THEN [state |-> [cs EXCEPT !.duration = data.num], log |-> "none"]
             ELSE IF name = "volume" /\ data.tag # "null"
             THEN [state |-> [cs EXCEPT !.volume = data.num], log |-> "none"]
             ELSE [state |-> cs, log |-> "none"]
    ELSE [state |-> cs, log |-> "none"]

\* should_publish_state with the position threshold included (>= for >)
should_publish_state_Inclusive(cur, prev, last, t) ==
    \/ cur.state # prev.state
    \/ cur.media_content_id # prev.media_content_id
    \/ cur.media_title # prev.media_title
    \/ Abs(cur.position - prev.position) >= PositionDelta
    \/ Abs(cur.volume - prev.volume) > VolumeDelta
    \/ t - last >= PublishInterval

\* MPVController.should_publish_state, t being time.time()
should_publish_state(cur, prev, last, t) ==
    \/ cur.state # prev.state
    \/ cur.media_content_id # prev.media_content_id
    \/ cur.media_title # prev.media_title
    \/ Abs(cur.position - prev.position) > PositionDelta
    \/ Abs(cur.volume - prev.volume) > VolumeDelta
    \/ t - last >= PublishInterval

(* ------------------------------------------------------------------ *)
(* The media directory and the playlist file                           *)
(* ------------------------------------------------------------------ *)
\* A directory is known by its number, the root being 1; an entry of subs
\* is a subdirectory or a link to a directory, "to" being the directory it
\* resolves to (its canonical path).  A name is a sequence of tokens.
RootId == 1
MediaRoot == <<Sep, "media">>

\* os.path.join
JoinPath(p, name) == p \o <<Sep>> \o name

Dir(fs, ss) == [files |-> fs, subs |-> ss]
NoDir == [exists |-> FALSE, dirs |-> <<>>]
EmptyDir == [exists |-> TRUE, dirs |-> <<Dir({}, {})>>]
FullDir == [exists |-> TRUE, dirs |-> <<Dir({<<"a.mp4">>, <<"b.mp4">>}, {})>>]
MediaDirs == {NoDir, EmptyDir, FullDir}

\* The tokens in the order of the code of their first character.  A token
\* of several characters stands for a run of characters that no other
\* token of the inputs begins.
Alphabet == <<"\n", " ", ".mp4", ".txt", Sep, "0", "1", "2", "a.mp4",
              "b.mp4", "c.mp4", "media", "n", "s", "t", "u">>
Ord(t) == CHOOSE i \in 1..Len(Alphabet) : Alphabet[i] = t
IsDigit(t) == t \in {"0", "1", "2"}
Whitespace == {"\n", " "}

\* re.fullmatch(file_pattern, filename), the pattern being .*\.mp4 (the
\* dot of a pattern matches no newline)
MediaTokens == {".mp4", "a.mp4", "b.mp4", "c.mp4"}
Matches(name) ==
    /\ name # <<>>
    /\ name[Len(name)] \in MediaTokens
    /\ \A i \in 1..Len(name) : name[i] # "\n"

\* re.split(r'(\d+)', s): runs of text and runs of digits in turn, a run of
\* text (that may be empty) first and last
RECURSIVE SplitDigits(_, _, _)
SplitDigits(str, cur, acc) ==
    IF str = <<>>
    THEN IF cur.digits
         THEN acc \o <<cur, [digits |-> FALSE, toks |-> <<>>]>>
         ELSE Append(acc, cur)
    ELSE IF IsDigit(Head(str)) = cur.digits
    THEN SplitDigits(Tail(str), [cur EXCEPT !.toks = Append(@, Head(str))],
                     acc)
    ELSE SplitDigits(Tail(str), [digits |-> ~cur.digits,
                                 toks |-> <<Head(str)>>], Append(acc, cur))

\* int() of a run of digits
RECURSIVE IntOf(_)
IntOf(ds) ==
    IF ds = <<>> THEN 0
    ELSE 10 * IntOf(SubSeq(ds, 1, Len(ds) - 1))
           + (Ord(ds[Len(ds)]) - Ord("0"))

\* MPVController.natural_sort_key
natural_sort_key(str) ==
    With(SplitDigits(str, [digits |-> FALSE, toks |-> <<>>], <<>>),
         LAMBDA runs :
           AsList([i \in 1..Len(runs) |->
                     IF runs[i].digits
                     THEN [int |-> TRUE, n |-> IntOf(runs[i].toks), s |-> <<>>]
                     ELSE [int |-> FALSE, n |-> 0,
                           s |-> Lower(runs[i].toks)]]))

\* the order of Python on strings
RECURSIVE StrLess(_, _, _)
StrLess(x, y, i) ==
    IF i > Len(x) THEN i <= Len(y)
    ELSE IF i > Len(y) THEN FALSE
    ELSE IF Ord(x[i]) < Ord(y[i]) THEN TRUE
    ELSE IF Ord(y[i]) < Ord(x[i]) THEN FALSE
    ELSE StrLess(x, y, i + 1)

\* the order of Python on the items of a key.  The items of two keys at
\* the same place are both text or both numbers.
ItemLess(x, y) ==
    IF x.int /\ y.int THEN x.n < y.n ELSE StrLess(x.s, y.s, 1)

\* the order of Python on lists
RECURSIVE KeyLess(_, _, _)
KeyLess(k, l, i) ==
    IF i > Len(k) THEN i <= Len(l)
    ELSE IF i > Len(l) THEN FALSE
    ELSE IF ItemLess(k[i], l[i]) THEN TRUE
    ELSE IF ItemLess(l[i], k[i]) THEN FALSE
    ELSE KeyLess(k, l, i + 1)

\* sorted(..., key=natural_sort_key) and list.sort(key=...).  The sort is
\* stable: an element comes before another when its key is less, or when
\* neither key is less and it came before.
Before(keys, i, j) ==
    \/ KeyLess(keys[i], keys[j], 1)
    \/ ~KeyLess(keys[j], keys[i], 1) /\ i < j

NaturalSorted(seq) ==
    With(AsList(seq), LAMBDA v :
      With(AsList([i \in 1..Len(v) |-> natural_sort_key(v[i])]), LAMBDA keys :
        With(AsList([i \in 1..Len(v) |->
                       Cardinality({j \in 1..Len(v) : Before(keys, j, i)}) + 1]),
             LAMBDA rank :
               AsList([r \in 1..Len(v) |->
                         v[CHOOSE i \in 1..Len(v) : rank[i] = r]]))))

\* os.listdir and the lists of os.walk come in an order of the file
\* system's choosing
RECURSIVE Listing(_)
Listing(S) ==
    IF S = {} THEN <<>>
    ELSE LET x == CHOOSE x \in S : TRUE
         IN  <<x>> \o Listing(S \ {x})

\* the state of the loop of line 83: the directories os.walk has yet to
\* yield, the canonical directories seen, and subdir_files
StartWalk ==
    [stack |-> <<[path |-> MediaRoot, id |-> RootId]>>, visited |-> {},
     out |-> <<>>]

\* one pass of the loop with the "continue" of line 88 left out: a
\* directory seen before is not descended into, but its files are listed
WalkStep_NoContinue(d, w) ==
    With(Head(w.stack), LAMBDA top :
      With(NaturalSorted(Listing({e.name : e \in d.dirs[top.id].subs})),
           LAMBDA dirs :
        With(SelectSeq(NaturalSorted(Listing(d.dirs[top.id].files)), Matches),
             LAMBDA found :
          LET below == IF top.id \in w.visited THEN <<>>
                       ELSE [i \in 1..Len(dirs) |->
                               [path |-> JoinPath(top.path, dirs[i]),
                                id |-> (CHOOSE e \in d.dirs[top.id].subs :
                                           e.name = dirs[i]).to]]
          IN  IF top.path = MediaRoot
              THEN [w EXCEPT !.stack = AsList(below \o Tail(@)),
                             !.visited = @ \cup {top.id}]
              ELSE [w EXCEPT !.stack = AsList(below \o Tail(@)),
                             !.visited = @ \cup {top.id},
                             !.out = @ \o [i \in 1..Len(found) |->
                                              JoinPath(top.path, found[i])]])))

\* prepare_playlist, lines 83-105: one pass of the loop over os.walk
WalkStep(d, w) ==
    With(Head(w.stack), LAMBDA top :
      With(NaturalSorted(Listing({e.name : e \in d.dirs[top.id].subs})),
           LAMBDA dirs :
        With(SelectSeq(NaturalSorted(Listing(d.dirs[top.id].files)), Matches),
             LAMBDA found :
          LET below == [i \in 1..Len(dirs) |->
                          [path |-> JoinPath(top.path, dirs[i]),
                           id |-> (CHOOSE e \in d.dirs[top.id].subs :
                                      e.name = dirs[i]).to]]
          IN  IF top.id \in w.visited
              THEN [w EXCEPT !.stack = Tail(@)]
              ELSE IF top.path = MediaRoot
              THEN [w EXCEPT !.stack = AsList(below \o Tail(@)),
                             !.visited = @ \cup {top.id}]
              ELSE [w EXCEPT !.stack = AsList(below \o Tail(@)),
                             !.visited = @ \cup {top.id},
                             !.out = @ \o [i \in 1..Len(found) |->
                                              JoinPath(top.path, found[i])]])))

RECURSIVE WalkAll(_, _)
WalkAll(d, w) ==
    IF w.stack = <<>> THEN w
    ELSE With(WalkStep(d, w), LAMBDA next : WalkAll(d, next))

\* prepare_playlist, lines 73-78: the matching files of the root
RootFiles(d) ==
    With(SelectSeq(Listing(d.dirs[RootId].files), Matches), LAMBDA found :
           AsList([i \in 1..Len(found) |-> JoinPath(MediaRoot, found[i])]))

\* prepare_playlist, lines 109-111
SortedFiles(d, subdir_files) ==
    NaturalSorted(RootFiles(d)) \o NaturalSorted(subdir_files)

\* prepare_playlist, lines 73-111
ScanMedia(d) == SortedFiles(d, WalkAll(d, StartWalk).out)

\* "\n".join(playlist), line 120
RECURSIVE JoinLines(_)
JoinLines(ls) ==
    IF ls = <<>> THEN <<>>
    ELSE IF Len(ls) = 1 THEN ls[1]
    ELSE ls[1] \o <<"\n">> \o JoinLines(Tail(ls))

\* str.strip()
RECURSIVE Strip(_)
Strip(str) ==
    IF str = <<>> THEN <<>>
    ELSE IF Head(str) \in Whitespace THEN Strip(Tail(str))
    ELSE IF str[Len(str)] \in Whitespace
    THEN Strip(SubSeq(str, 1, Len(str) - 1))
    ELSE str

\* the lines of a text
RECURSIVE SplitLines(_, _)
SplitLines(text, cur) ==
    IF text = <<>> THEN <<cur>>
    ELSE IF Head(text) = "\n" THEN <<cur>> \o SplitLines(Tail(text), <<>>)
    ELSE SplitLines(Tail(text), Append(cur, Head(text)))

\* line 63: [line.strip() for line in f if line.strip()]
ReadLines(text) ==
    LET ls == SplitLines(text, <<>>)
        stripped == [i \in 1..Len(ls) |-> Strip(ls[i])]
    IN  SelectSeq(stripped, LAMBDA l : l # <<>>)

NoFile == [exists |-> FALSE, text |-> <<>>]
File(ls) == [exists |-> TRUE, text |-> JoinLines(ls)]

\* the playlist of FullDir
FileOrder == <<PathA, PathB>>

\* MPVController.prepare_playlist: [ok, playlist, file, scanned] from the
\* playlist in memory, the playlist file and the media directory
prepare_playlist(force, pl, file, dir) ==
    IF ~force /\ file.exists
    THEN [ok |-> TRUE, playlist |-> ReadLines(file.text), file |-> file,
          scanned |-> FALSE]
    ELSE IF ~dir.exists
    THEN [ok |-> FALSE, playlist |-> pl, file |-> file, scanned |-> FALSE]
    ELSE LET files == ScanMedia(dir)
         IN  IF files = <<>>
             THEN [ok |-> FALSE, playlist |-> pl, file |-> file,
                   scanned |-> TRUE]
             ELSE [ok |-> TRUE, playlist |-> files, file |-> File(files),
                   scanned |-> TRUE]

(* ------------------------------------------------------------------ *)
(* The writes of start_mpv_drm and stop_mpv to the playback state      *)
(* ------------------------------------------------------------------ *)
\* start_mpv_drm, lines 330-332
StartFields(cs, pl) ==
    [cs EXCEPT !.state = "playing",
               !.media_content_id = IF pl # <<>> THEN pl[1] ELSE None,
               !.media_title = IF pl # <<>> THEN Basename(pl[1]) ELSE None]

\* the reset of stop_mpv with the title left in place
StopReset_KeepTitle(cs) ==
    [cs EXCEPT !.state = "idle", !.media_content_id = None,
               !.position = 0, !.duration = 0]

\* stop_mpv, lines 378-382
StopReset(cs) ==
    [cs EXCEPT !.state = "idle", !.media_content_id = None,
               !.media_title = None, !.position = 0, !.duration = 0]

\* the except branch of start_mpv_drm resetting the whole state
StartFailed_Reset(cs) == StopReset(cs)

\* start_mpv_drm, line 346: the except branch
StartFailed(cs) == [cs EXCEPT !.state = "idle"]

AliveProcesses == (IF mpv_process = "running" THEN 1 ELSE 0) + orphans

NoDoc == [state |-> "none"]
Published(by) == [doc |-> current_state, by |-> by, active |-> is_playing]

(* ------------------------------------------------------------------ *)
(* Initial state: MPVController.__init__ and MQTTClient.__init__       *)
(* ------------------------------------------------------------------ *)
InitController ==
    /\ mpv_process = "none"
    /\ mpv_log_handle = "none"
    /\ playlist = <<>>
    /\ is_playing = FALSE
    /\ current_state = InitialState
    /\ previous_state = InitialState
    /\ ipc_socket = "none"
    /\ observation_thread = "none"
    /\ stop_observation = FALSE
    /\ last_publish_time = 0
    /\ publish_timer = "none"

InitThreads ==
    /\ cmdpc = "idle"
    /\ cmd = "none"
    /\ afterStop = FALSE
    /\ cmdOutcome = "none"
    /\ tickpc = "idle"
    /\ lastPub = [doc |-> NoDoc, by |-> "none", active |-> FALSE]

NoPayload == [kind |-> "none"]
NoTraffic == [adhoc |-> <<>>, session |-> <<>>]
NoBuild == [valid |-> FALSE, list |-> <<>>]
NoEvent == [event |-> "none"]
NoThreads == [t \in 1..MaxThreads |-> [pc |-> "unborn", held |-> NoEvent]]
NoTimer == [st |-> "free", finished |-> FALSE, pc |-> "none"]
NoTimers == [i \in 1..MaxTimers |-> NoTimer]

InitPart ==
    /\ payload = NoPayload
    /\ command = <<>>
    /\ sent = NoTraffic
    /\ walk = StartWalk
    /\ scans = 0
    /\ built = NoBuild
    /\ threads = NoThreads
    /\ handle = 0
    /\ socket_wait_time = 0
    /\ socket_file = "absent"
    /\ timers = NoTimers

InitFn ==
    /\ InitPart
    /\ fpc = "off"
    /\ ev = [event |-> "none"]
    /\ pre = InitialState
    /\ log = "none"
    /\ sp = FALSE

\* The media directory is missing, empty or holds two files; the playlist
\* file is missing, empty or left over from other content.
Init ==
    /\ InitController
    /\ InitThreads
    /\ InitFn
    /\ media_dir \in MediaDirs
    /\ playlist_file \in (IF media_dir.exists
                          THEN {NoFile, File(<<>>), File(<<PathB>>)}
                          ELSE {NoFile})
    /\ orphans = 0
    /\ now = PublishInterval

(* ------------------------------------------------------------------ *)
(* The bus loop thread: on_connect and on_message                      *)
(* ------------------------------------------------------------------ *)
\* MQTTClient.on_connect (rc = 0): publish the state, start the timer
OnConnect ==
    /\ cmdpc = "idle"
    /\ publish_timer = "none"
    /\ lastPub' = Published("connect")
    /\ publish_timer' = "pending"
    /\ UNCHANGED <<ctlVars, envVars, cmdVars, tickpc, fnVars>>

\* on_message, lines 482-503: decode the command and branch on it.  The
\* topic is subscribed in on_connect, so no command precedes it.
RecvCommand(c) ==
    /\ cmdpc = "idle"
    /\ publish_timer # "none"
    /\ cmdpc' = (IF c = "play" THEN "prepare" ELSE "stop")
    /\ cmd' = c
    /\ cmdOutcome' = "none"
    /\ UNCHANGED <<ctlVars, publish_timer, envVars, afterStop, tickpc, lastPub,
                   fnVars>>

\* What terminate()/wait(timeout=5)/kill() can come to, lines 366-374:
\*   graceful: the process exited within the wait;
\*   timeout:  kill() was sent and nothing waits for the process;
\*   error:    terminate() or wait() raised, the process was not stopped.
StopOutcomes ==
    IF mpv_process = "running" /\ orphans < MaxOrphans
    THEN {"graceful", "timeout", "error"}
    ELSE {"graceful"}

\* MPVController.stop_mpv.  The join (line 354) ends with the thread
\* stopped: the thread tests stop_observation at least once a second.
StopMpv ==
    /\ cmdpc = "stop"
    /\ stop_observation' = TRUE
    /\ observation_thread' =
          (IF observation_thread = "alive" THEN "dead" ELSE observation_thread)
    /\ ipc_socket' = "none"
    /\ IF mpv_process # "none"
       THEN /\ \E o \in StopOutcomes :
                 /\ cmdOutcome' = o
                 /\ orphans' = (IF o = "graceful" THEN orphans ELSE orphans + 1)
            /\ mpv_process' = "none"
            /\ is_playing' = FALSE
            /\ current_state' = StopReset(current_state)
            /\ mpv_log_handle' = "none"
       ELSE /\ cmdOutcome' = "no_process"
            /\ UNCHANGED <<mpv_process, is_playing, current_state,
                           mpv_log_handle, orphans>>
    /\ cmdpc' = (IF cmd = "stop" THEN "publish" ELSE "delete")
    /\ UNCHANGED <<playlist, previous_state, last_publish_time, publish_timer,
                   media_dir, playlist_file, now, cmd, afterStop, tickpc,
                   lastPub, fnVars>>

\* on_message, lines 506-512: remove the playlist file if it is there; a
\* failure to remove it is printed and the handler goes on
RemovePlaylist ==
    /\ cmdpc = "delete"
    /\ \/ playlist_file' = NoFile
       \/ playlist_file.exists /\ playlist_file' = playlist_file
    /\ cmdpc' = "prepare"
    /\ UNCHANGED <<ctlVars, publish_timer, media_dir, orphans, now, cmd,
                   afterStop, cmdOutcome, tickpc, lastPub, fnVars>>

\* handle_play_command line 406 (force = False) and on_message line 513
\* (force = True)
PreparePlaylist ==
    /\ cmdpc = "prepare"
    /\ LET r == prepare_playlist(cmd = "clear-playlist", playlist,
                                 playlist_file, media_dir)
       IN  /\ playlist' = r.playlist
           /\ playlist_file' = r.file
           /\ cmdpc' = (IF r.ok THEN "start" ELSE "ret")
           /\ cmdOutcome' = (IF r.ok THEN "prepared" ELSE "no_playlist")
    /\ UNCHANGED <<mpv_process, mpv_log_handle, is_playing, current_state,
                   previous_state, ipc_socket, observation_thread,
                   stop_observation, last_publish_time, publish_timer,
                   media_dir, orphans, now, cmd, afterStop, tickpc, lastPub,
                   fnVars>>

\* What a start that goes past line 264 can come to:
\*   spawn_error:    Popen raises (line 310), the except branch runs;
\*   socket_timeout: the socket is not there after the wait (line 323);
\*   ipc_error:      setup_ipc_connection fails (line 340);
\*   started:        lines 329-338.
StartOutcomes == {"spawn_error", "socket_timeout", "ipc_error", "started"}

\* MPVController.start_mpv_drm
StartMpvDrm ==
    /\ cmdpc = "start"
    /\ IF mpv_process = "running"
       THEN \* lines 256-258: already running
            /\ cmdOutcome' = "already_running"
            /\ cmdpc' = "publish"
            /\ UNCHANGED <<ctlVars, playlist_file>>
       ELSE LET r == IF playlist_file.exists
                     THEN [ok |-> TRUE, playlist |-> playlist,
                           file |-> playlist_file]
                     ELSE prepare_playlist(TRUE, playlist, playlist_file,
                                           media_dir)
            IN  IF ~r.ok
                THEN \* lines 261-264
                     /\ cmdOutcome' = "no_playlist"
                     /\ cmdpc' = "ret"
                     /\ UNCHANGED <<ctlVars, playlist_file>>
                ELSE
                  /\ playlist' = r.playlist
                  /\ playlist_file' = r.file
                  /\ \E o \in StartOutcomes :
                       /\ cmdOutcome' = o
                       /\ cmdpc' = (IF o = "started" THEN "publish" ELSE "ret")
                       /\ mpv_process' =
                             (IF o = "spawn_error" THEN mpv_process
                              ELSE "running")
                       /\ ipc_socket' =
                             (CASE o = "started" -> "connected"
                                [] o = "ipc_error" -> "unconnected"
                                [] OTHER -> ipc_socket)
                       /\ is_playing' =
                             (CASE o = "started" -> TRUE
                                [] o = "spawn_error" -> FALSE
                                [] OTHER -> is_playing)
                       /\ current_state' =
                             (CASE o = "started" ->
                                     StartFields(current_state, r.playlist)
                                [] o = "spawn_error" ->
                                     StartFailed(current_state)
                                [] OTHER -> current_state)
                       /\ stop_observation' =
                             (IF o = "started" THEN FALSE
                              ELSE stop_observation)
                       /\ observation_thread' =
                             (IF o = "started" THEN "alive"
                              ELSE observation_thread)
                  \* lines 298-305: the log file, or /dev/null
                  /\ mpv_log_handle' = "open"
                  /\ UNCHANGED <<previous_state, last_publish_time>>
    /\ UNCHANGED <<publish_timer, media_dir, orphans, now, cmd, afterStop,
                   tickpc, lastPub, fnVars>>

\* on_message, lines 489 / 499 / 516: publish_state(current_state)
CmdPublish ==
    /\ cmdpc = "publish"
    /\ lastPub' = Published("command")
    /\ cmdpc' = "record"
    /\ UNCHANGED <<ctlVars, publish_timer, envVars, cmd, afterStop,
                   cmdOutcome, tickpc, fnVars>>

\* on_message, lines 490-491 / 500-501 / 517-518: update_previous_state()
\* and last_publish_time = time.time()
CmdRecord ==
    /\ cmdpc = "record"
    /\ previous_state' = current_state
    /\ last_publish_time' = now
    /\ cmdpc' = "ret"
    /\ cmdOutcome' = "published"
    /\ UNCHANGED <<mpv_process, mpv_log_handle, playlist, is_playing,
                   current_state, ipc_socket, observation_thread,
                   stop_observation, publish_timer, envVars, cmd, afterStop,
                   tickpc, lastPub, fnVars>>

\* on_message returns
CmdReturn ==
    /\ cmdpc = "ret"
    /\ cmdpc' = "idle"
    /\ cmd' = "none"
    /\ afterStop' = (cmd = "stop")
    /\ cmdOutcome' = "none"
    /\ UNCHANGED <<ctlVars, publish_timer, envVars, tickpc, lastPub, fnVars>>

\* the command being handled has come to its end, and with success
Returned(c) == cmdpc = "ret" /\ cmd = c
Succeeded(c) == Returned(c) /\ cmdOutcome = "published"

(* ------------------------------------------------------------------ *)
(* The observation thread                                              *)
(* ------------------------------------------------------------------ *)
EventsSeen ==
    { PropertyChange("pause", Bool(TRUE)),
      PropertyChange("pause", Bool(FALSE)) }

\* observe_properties, lines 184-195: one pass of the loop that reads and
\* folds one event
ObserveEvent ==
    /\ observation_thread = "alive"
    /\ ~stop_observation
    /\ ipc_socket = "connected"
    /\ \E e \in EventsSeen : current_state' = process_event(current_state, e).state
    /\ UNCHANGED <<mpv_process, mpv_log_handle, playlist, is_playing,
                   previous_state, ipc_socket, observation_thread,
                   stop_observation, last_publish_time, publish_timer,
                   envVars, cmdVars, tickpc, lastPub, fnVars>>

(* ------------------------------------------------------------------ *)
(* The timer thread: check_and_publish_state                           *)
(* ------------------------------------------------------------------ *)
\* line 458; when the test fails the timer is started again (line 466)
TickCheck ==
    /\ publish_timer = "pending"
    /\ tickpc = "idle"
    /\ tickpc' = (IF is_playing
                     /\ should_publish_state(current_state, previous_state,
                                             last_publish_time, now)
                  THEN "publish" ELSE "idle")
    /\ UNCHANGED <<ctlVars, publish_timer, envVars, cmdVars, lastPub, fnVars>>

\* line 459
TickPublish ==
    /\ tickpc = "publish"
    /\ lastPub' = Published("tick")
    /\ tickpc' = "record"
    /\ UNCHANGED <<ctlVars, publish_timer, envVars, cmdVars, fnVars>>

\* lines 460-461, then the timer is started again (line 466)
TickRecord ==
    /\ tickpc = "record"
    /\ previous_state' = current_state
    /\ last_publish_time' = now
    /\ tickpc' = "idle"
    /\ UNCHANGED <<mpv_process, mpv_log_handle, playlist, is_playing,
                   current_state, ipc_socket, observation_thread,
                   stop_observation, publish_timer, envVars, cmdVars,
                   lastPub, fnVars>>

(* ------------------------------------------------------------------ *)
(* The environment                                                     *)
(* ------------------------------------------------------------------ *)
\* the player process exits by itself
ProcessExits ==
    /\ mpv_process = "running"
    /\ mpv_process' = "exited"
    /\ UNCHANGED <<mpv_log_handle, playlist, is_playing, current_state,
                   previous_state, ipc_socket, observation_thread,
                   stop_observation, last_publish_time, publish_timer,
                   envVars, cmdVars, tickpc, lastPub, fnVars>>

\* a process that was killed or could not be stopped is gone at last
OrphanExits ==
    /\ orphans > 0
    /\ orphans' = orphans - 1
    /\ UNCHANGED <<ctlVars, publish_timer, media_dir, playlist_file, now,
                   cmdVars, tickpc, lastPub, fnVars>>

AdvanceTime ==
    /\ now + TimerPeriod <= MaxTime
    /\ now' = now + TimerPeriod
    /\ UNCHANGED <<ctlVars, publish_timer, media_dir, playlist_file, orphans,
                   cmdVars, tickpc, lastPub, fnVars>>

Commands == {"play", "stop", "clear-playlist"}

Next ==
    \/ OnConnect
    \/ \E c \in Commands : RecvCommand(c)
    \/ StopMpv
    \/ RemovePlaylist
    \/ PreparePlaylist
    \/ StartMpvDrm
    \/ CmdPublish
    \/ CmdRecord
    \/ CmdReturn
    \/ ObserveEvent
    \/ TickCheck
    \/ TickPublish
    \/ TickRecord
    \/ ProcessExits
    \/ OrphanExits
    \/ AdvanceTime

Spec == Init /\ [][Next]_vars

(* ================================================================== *)
(* Claims about the commands, checked under Spec                       *)
(* ================================================================== *)

\* a play command that fails: the step that ends the handling without any
\* publish (a failed build or a failed start)
PlayFails == cmd = "play" /\ cmdpc \in {"prepare", "start"} /\ cmdpc' = "ret"

\* C1: whenever play reports success the phase is not Idle, the player is
\* marked active and, with a non-empty playlist, currentPath is not null.
C1_PlaySuccessMeansPlaying ==
    Succeeded("play") =>
        /\ current_state.state # "idle"
        /\ is_playing
        /\ (playlist # <<>> => current_state.media_content_id # None)

C3_PlayFailureChangesNothing ==
    [][PlayFails => current_state' = current_state /\ lastPub' = lastPub]_vars

\* C3 as amended: a play that fails publishes nothing and leaves the playback
\* state as it was, except when the player cannot be spawned: then the phase
\* becomes Idle, the player is marked inactive and the other fields stay.
\* With no playlist file and an empty media directory play fails and the
\* phase stays as it was.
C3_PlayFailureAmended ==
    /\ [][PlayFails =>
             /\ lastPub' = lastPub
             /\ IF cmdOutcome' = "spawn_error"
                THEN /\ current_state' =
                           [current_state EXCEPT !.state = "idle"]
                     /\ ~is_playing'
                ELSE /\ current_state' = current_state
                     /\ is_playing' = is_playing]_vars
    /\ [][(cmd = "play" /\ cmdpc = "prepare" /\ cmdpc' # "prepare"
              /\ ~playlist_file.exists /\ media_dir = EmptyDir) =>
             /\ cmdpc' = "ret"
             /\ cmdOutcome' = "no_playlist"
             /\ current_state' = current_state]_vars

\* C3 witness: a play has failed to spawn the player after an earlier run
\* (the path of that run is still in the state) and the phase is Idle
C3_Witness ==
    /\ Returned("play")
    /\ cmdOutcome = "spawn_error"
    /\ current_state.state = "idle"
    /\ current_state.media_content_id # None

\* C4: when clear-playlist returns, every lifecycle transition it made has
\* been published: the retained document is Idle exactly when the phase is.
\* (Events move the phase between Playing and Paused on their own, so the
\* phases are compared as Idle or not.)
C4_ClearPublishesItsTransitions ==
    Returned("clear-playlist") =>
        ((lastPub.doc.state = "idle") <=> (current_state.state = "idle"))

\* C5: the forced publish of a successful play records the published
\* document as the previously-published snapshot, and the time of the
\* publish, so that the next tick finds nothing to publish.
C5_PlayPublishIsRecorded ==
    [][(cmd = "play" /\ cmdpc = "record" /\ cmdpc' = "ret") =>
          /\ previous_state' = lastPub.doc
          /\ last_publish_time' = now]_vars

\* C6: at most one player process started by the controller is alive.
C6_OneProcess == AliveProcesses <= 1

\* C8: the tick never publishes while the player is not active.
C8_TickPublishesOnlyWhenActive == lastPub.by = "tick" => lastPub.active

\* C13: when stop_mpv returns, after any outcome of the termination and
\* after any outcome of the start before it, no process handle is held, no
\* log sink is open and the phase is Idle.
C13_StopReleasesAll ==
    [][(cmdpc = "stop" /\ cmdpc' # "stop") =>
          /\ mpv_process' = "none"
          /\ mpv_log_handle' = "none"
          /\ current_state'.state = "idle"]_vars

(* ================================================================== *)
(* process_event on its own: SpecEvent folds one event into a state    *)
(* drawn from StatesUnderTest, records the state as published or not,  *)
(* folds the same event again and asks should_publish_state.           *)
(* ================================================================== *)
MaxPosition == 6

TitledPaths == {<<None, None>>, <<PathA, Basename(PathA)>>,
                <<PathB, Basename(PathB)>>}

StatesUnderTest ==
    { [state |-> ph, media_content_id |-> tp[1], media_title |-> tp[2],
       volume |-> InitialVolume, position |-> pos, duration |-> 0] :
      ph \in {"idle", "playing", "paused"}, tp \in TitledPaths,
      pos \in {0, MaxPosition} }

EventsUnderTest ==
    { PropertyChange("pause", Bool(TRUE)),
      PropertyChange("pause", Bool(FALSE)),
      PropertyChange("path", Str(PathA)),
      PropertyChange("path", Str(PathB)),
      PropertyChange("path", Str(PathDir)),
      PropertyChange("path", Str(PathBare)),
      PropertyChange("path", Str(<<>>)),
      PropertyChange("path", Null),
      PropertyChange("time-pos", Num(0)),
      PropertyChange("time-pos", Num(MaxPosition)),
      PropertyChange("time-pos", Null),
      PropertyChange("duration", Num(MaxPosition)),
      PropertyChange("duration", Null),
      PropertyChange("volume", Num(InitialVolume - VolumeDelta)),
      PropertyChange("volume", Null),
      PropertyChange("mute", Bool(TRUE)),
      [event |-> "property-change", name |-> "time-pos"],
      [event |-> "property-change"],
      [event |-> "playback-restart"],
      [event |-> "pause", name |-> "pause", data |-> Bool(TRUE)],
      [error |-> "success", request_id |-> Num(0)] }

InitEvent ==
    /\ mpv_process = "running"
    /\ mpv_log_handle = "open"
    /\ playlist = FileOrder
    /\ is_playing = TRUE
    /\ current_state \in StatesUnderTest
    /\ previous_state = InitialState
    /\ ipc_socket = "connected"
    /\ observation_thread = "alive"
    /\ stop_observation = FALSE
    /\ last_publish_time = 0
    /\ publish_timer = "pending"
    /\ InitThreads
    /\ media_dir = FullDir
    /\ playlist_file = File(FileOrder)
    /\ orphans = 0
    /\ now = PublishInterval
    /\ InitPart
    /\ fpc = "fold"
    /\ ev \in EventsUnderTest
    /\ pre = current_state
    /\ log = "none"
    /\ sp = FALSE

\* observe_properties, line 195: process_event(event)
FoldEvent ==
    /\ fpc \in {"fold", "folded", "recorded"}
    /\ LET r == process_event(current_state, ev)
       IN  /\ current_state' = r.state
           /\ log' = r.log
    /\ pre' = current_state
    /\ fpc' = (CASE fpc = "fold" -> "folded"
                 [] fpc = "folded" -> "again"
                 [] fpc = "recorded" -> "again_recorded")
    /\ UNCHANGED <<mpv_process, mpv_log_handle, playlist, is_playing,
                   previous_state, ipc_socket, observation_thread,
                   stop_observation, last_publish_time, publish_timer,
                   envVars, cmdVars, tickpc, lastPub, ev, sp, partVars>>

\* a publish between the two folds: lines 459-461
PublishBetween ==
    /\ fpc = "folded"
    /\ lastPub' = Published("tick")
    /\ previous_state' = current_state
    /\ last_publish_time' = now
    /\ fpc' = "recorded"
    /\ UNCHANGED <<mpv_process, mpv_log_handle, playlist, is_playing,
                   current_state, ipc_socket, observation_thread,
                   stop_observation, publish_timer, envVars, cmdVars, tickpc,
                   ev, pre, log, sp, partVars>>

\* the test of line 458 after the second fold
CheckAfter ==
    /\ fpc = "again_recorded"
    /\ sp' = should_publish_state(current_state, previous_state,
                                  last_publish_time, now)
    /\ fpc' = "checked"
    /\ UNCHANGED <<ctlVars, publish_timer, envVars, cmdVars, tickpc, lastPub,
                   ev, pre, log, partVars>>

NextEvent == FoldEvent \/ PublishBetween \/ CheckAfter

SpecEvent == InitEvent /\ [][NextEvent]_vars

IsPropertyChange(e) == "event" \in DOMAIN e /\ e.event = "property-change"
HasData(e, tag) == "data" \in DOMAIN e /\ e.data.tag = tag
IsPathEvent(e) ==
    IsPropertyChange(e) /\ GetName(e) = "path" /\ HasData(e, "str")
       /\ e.data.str # <<>>

\* t is the last segment of p: what is left of p after its last separator
IsLastSegment(t, p) ==
    /\ \A j \in 1..Len(t) : t[j] # Sep
    /\ \E i \in 0..Len(p) :
          /\ t = SubSeq(p, i + 1, Len(p))
          /\ (i = 0 \/ p[i] = Sep)

\* C9: folding one event follows the transition table: pause with a boolean
\* sets the phase, path with a non-empty string sets currentPath and
\* currentTitle (its last segment), time-pos, duration and volume with a
\* number set their field, every other field stays, and an event that is no
\* property-change or names no known property changes nothing.
C9_FoldFollowsTable ==
    fpc = "folded" =>
        /\ (IsPropertyChange(ev) /\ GetName(ev) = "pause" /\ HasData(ev, "bool"))
              => current_state =
                   [pre EXCEPT !.state = IF ev.data.bool THEN "paused"
                                         ELSE "playing"]
        /\ IsPathEvent(ev)
              => /\ current_state.media_content_id = ev.data.str
                 /\ IsLastSegment(current_state.media_title, ev.data.str)
                 /\ current_state =
                      [pre EXCEPT
                         !.media_content_id = current_state.media_content_id,
                         !.media_title = current_state.media_title]
        /\ (IsPropertyChange(ev) /\ GetName(ev) = "time-pos" /\ HasData(ev, "num"))
              => current_state = [pre EXCEPT !.position = ev.data.num]
        /\ (IsPropertyChange(ev) /\ GetName(ev) = "duration" /\ HasData(ev, "num"))
              => current_state = [pre EXCEPT !.duration = ev.data.num]
        /\ (IsPropertyChange(ev) /\ GetName(ev) = "volume" /\ HasData(ev, "num"))
              => current_state = [pre EXCEPT !.volume = ev.data.num]
        /\ (~IsPropertyChange(ev)
              \/ GetName(ev) \notin {"pause", "path", "time-pos", "duration",
                                     "volume"})
              => current_state = pre /\ log = "none"

\* C9 witness: a path event has been folded into a state that held another
\* path, and the title is the file name
C9_Witness ==
    /\ fpc = "folded"
    /\ ev = PropertyChange("path", Str(PathB))
    /\ pre.media_content_id = PathA
    /\ current_state.media_title = <<"b.mp4">>

\* C10: the same path event folded a second time leaves the state as the
\* first fold left it and prints no title change; when the state was
\* published in between, the test of the next tick is false.
C10_SecondPathEventIsIdle ==
    /\ (fpc \in {"again", "again_recorded"} /\ IsPathEvent(ev))
          => current_state = pre /\ log = "none"
    /\ (fpc = "checked" /\ IsPathEvent(ev)) => ~sp

\* C10 witness: a path event that changed the path was folded twice with a
\* publish in between, and the tick has tested the state
C10_Witness ==
    /\ fpc = "checked"
    /\ ev = PropertyChange("path", Str(PathB))
    /\ current_state.media_content_id = PathB
    /\ previous_state.media_content_id = PathB
    /\ ~sp

(* ================================================================== *)
(* should_publish_state on its own: SpecPublish draws the current      *)
(* state around a published one and the time since the publish, and    *)
(* evaluates the test of line 458.                                     *)
(* ================================================================== *)
MaxPositionStep == 6
MaxVolumeStep == 2
MaxElapsed == 11

\* the snapshot of the last publish: position 10.0 s, volume 50 %
PublishedUnderTest ==
    [state |-> "playing", media_content_id |-> PathA,
     media_title |-> Basename(PathA), volume |-> 50, position |-> 100,
     duration |-> 0]

CurrentUnderTest ==
    { [state |-> ph, media_content_id |-> path, media_title |-> title,
       volume |-> PublishedUnderTest.volume + dv,
       position |-> PublishedUnderTest.position + dp,
       duration |-> dur] :
      ph \in {"playing", "paused"},
      path \in {PathA, PathB},
      title \in {Basename(PathA), Basename(PathB)},
      dv \in (0 - MaxVolumeStep)..MaxVolumeStep,
      dp \in (0 - MaxPositionStep)..MaxPositionStep,
      dur \in {0, MaxPositionStep} }

InitPublish ==
    /\ mpv_process = "running"
    /\ mpv_log_handle = "open"
    /\ playlist = FileOrder
    /\ is_playing = TRUE
    /\ current_state \in CurrentUnderTest
    /\ previous_state = PublishedUnderTest
    /\ ipc_socket = "connected"
    /\ observation_thread = "alive"
    /\ stop_observation = FALSE
    /\ last_publish_time = PublishInterval
    /\ publish_timer = "pending"
    /\ InitThreads
    /\ media_dir = FullDir
    /\ playlist_file = File(FileOrder)
    /\ orphans = 0
    /\ now \in last_publish_time..(last_publish_time + MaxElapsed)
    /\ InitPart
    /\ fpc = "test"
    /\ ev = [event |-> "none"]
    /\ pre = current_state
    /\ log = "none"
    /\ sp = FALSE

\* check_and_publish_state, line 458: should_publish_state()
EvalShouldPublish ==
    /\ fpc = "test"
    /\ sp' = should_publish_state(current_state, previous_state,
                                  last_publish_time, now)
    /\ fpc' = "tested"
    /\ UNCHANGED <<ctlVars, publish_timer, envVars, cmdVars, tickpc, lastPub,
                   ev, pre, log, partVars>>

NextPublish == EvalShouldPublish

SpecPublish == InitPublish /\ [][NextPublish]_vars

\* the state differs from the published one in nothing but the fields fs
SameBut(fs) ==
    \A f \in DOMAIN current_state \ fs : current_state[f] = previous_state[f]

\* C7: the test is true exactly when the phase, the path or the title
\* differs, the position differs by more than 0.5 s, the volume by more than
\* 1, or the interval has elapsed; 10.0 -> 10.3 s alone gives false,
\* 10.0 -> 10.6 s gives true; a change of the duration alone gives false.
C7_ShouldPublishExactly ==
    fpc = "tested" =>
        /\ sp <=>
             \/ current_state.state # previous_state.state
             \/ current_state.media_content_id # previous_state.media_content_id
             \/ current_state.media_title # previous_state.media_title
             \/ current_state.position - previous_state.position > 5
             \/ previous_state.position - current_state.position > 5
             \/ current_state.volume - previous_state.volume > 1
             \/ previous_state.volume - current_state.volume > 1
             \/ now - last_publish_time >= PublishInterval
        /\ (now - last_publish_time < PublishInterval /\ SameBut({"position"}))
              => /\ current_state.position = 103 => ~sp
                 /\ current_state.position = 106 => sp
        /\ (now - last_publish_time < PublishInterval /\ SameBut({"duration"}))
              => ~sp

\* C7 witness: the position moved from 10.0 s to 10.6 s, nothing else
\* changed, the interval has not elapsed, and the test is true
C7_Witness ==
    /\ fpc = "tested"
    /\ SameBut({"position"})
    /\ previous_state.position = 100
    /\ current_state.position = 106
    /\ now - last_publish_time < PublishInterval
    /\ sp

(* ================================================================== *)
(* The dispatch of on_message on its own: SpecDispatch takes one       *)
(* message in a controller that is idle, playing or paused, decodes    *)
(* it, routes it and, for a command that is none of play, stop and     *)
(* clear-playlist, calls send_mpv_command.  A command is a sequence of *)
(* tokens; the tokens in capitals have a lower-case form.              *)
(* ================================================================== *)
\* a payload that decodes to a JSON object with the key "command"
Object(c) == [kind |-> "object", command |-> c]

PayloadsUnderTest ==
    { Object(Str(<<"cycle", " ", "pause">>)),
      Object(Str(<<"seek", " ", "1", "0">>)),
      Object(Str(<<"Seek", " ", "1", "0">>)),
      Object(Str(<<"loadfile", " ", Sep, "media", Sep, "A", ".mp4">>)),
      Object(Str(<<"PLAY">>)),
      Object(Str(<<"play">>)),
      Object(Str(<<"stop">>)),
      Object(Str(<<"clear-playlist">>)),
      Object(Str(<<>>)),
      Object(Num(1)),
      Object(Null),
      [kind |-> "object"],
      [kind |-> "array"],
      [kind |-> "garbage"] }

\* on_message, lines 482-483: json.loads, payload.get("command", ""),
\* .lower(); what is raised when one of them fails
DecodeCommand(p) ==
    IF p.kind = "garbage"
    THEN [ok |-> FALSE, raised |-> "JSONDecodeError", command |-> <<>>]
    ELSE IF p.kind # "object"
    THEN [ok |-> FALSE, raised |-> "AttributeError", command |-> <<>>]
    ELSE LET c == IF "command" \in DOMAIN p THEN p.command ELSE Str(<<>>)
         IN  IF c.tag # "str"
             THEN [ok |-> FALSE, raised |-> "AttributeError",
                   command |-> <<>>]
             ELSE [ok |-> TRUE, raised |-> "none", command |-> Lower(c.str)]

Lifecycle == {<<"play">>, <<"stop">>, <<"clear-playlist">>}

\* the chain of tests of on_message with the emptiness test of line 524
\* left out
Route_NoEmptyTest(c, playing) ==
    IF c \in Lifecycle THEN "lifecycle"
    ELSE IF playing THEN "forward"
    ELSE "ignore"

\* on_message, lines 485-531: the branch a decoded command takes
Route(c, playing) ==
    IF c \in Lifecycle THEN "lifecycle"
    ELSE IF c # <<>> /\ playing THEN "forward"
    ELSE "ignore"

\* setup_property_observation, lines 156-166: what start wrote to the session
ObserveDirectives == <<"pause", "path", "time-pos", "duration", "volume">>

InitDispatch ==
    /\ \E active \in BOOLEAN, exited \in BOOLEAN, ph \in {"playing", "paused"} :
          /\ exited => active
          /\ mpv_process = (IF ~active THEN "none"
                            ELSE IF exited THEN "exited" ELSE "running")
          /\ mpv_log_handle = (IF active THEN "open" ELSE "none")
          /\ playlist = (IF active THEN FileOrder ELSE <<>>)
          /\ is_playing = active
          /\ current_state =
                (IF active
                 THEN [StartFields(InitialState, FileOrder) EXCEPT !.state = ph]
                 ELSE InitialState)
          /\ ipc_socket = (IF active THEN "connected" ELSE "none")
          /\ observation_thread = (IF active THEN "alive" ELSE "none")
          /\ sent = (IF active
                     THEN [adhoc |-> <<>>, session |-> ObserveDirectives]
                     ELSE NoTraffic)
          /\ (~active => ph = "playing")
    /\ previous_state = current_state
    /\ stop_observation = FALSE
    /\ last_publish_time = PublishInterval
    /\ publish_timer = "pending"
    /\ InitThreads
    /\ media_dir = FullDir
    /\ playlist_file = File(FileOrder)
    /\ orphans = 0
    /\ now = PublishInterval
    /\ fpc = "recv"
    /\ ev = [event |-> "none"]
    /\ pre = current_state
    /\ log = "none"
    /\ sp = FALSE
    /\ payload \in PayloadsUnderTest
    /\ command = <<>>
    /\ walk = StartWalk
    /\ scans = 0
    /\ built = NoBuild
    /\ threads = NoThreads
    /\ handle = 0
    /\ socket_wait_time = 0
    /\ socket_file = "absent"
    /\ timers = NoTimers

\* on_message, lines 482-483, and the handlers of lines 533-536
DecodePayload ==
    /\ fpc = "recv"
    /\ LET d == DecodeCommand(payload)
       IN  /\ command' = d.command
           /\ fpc' = (IF d.ok THEN "route" ELSE "caught")
           /\ log' = (CASE d.ok -> "none"
                        [] d.raised = "JSONDecodeError" -> "Invalid JSON received"
                        [] OTHER -> "Error processing message")
    /\ UNCHANGED <<ctlVars, publish_timer, envVars, cmdVars, tickpc, lastPub,
                   ev, pre, sp, payload, sent, walk, scans, built,
                   threads, handle,
                   socket_wait_time, socket_file, timers>>

\* on_message, lines 485-531.  The three lifecycle commands are the
\* business of Spec; here the handling stops at the branch.
RouteCommand ==
    /\ fpc = "route"
    /\ LET r == Route(command, is_playing)
       IN  /\ fpc' = (CASE r = "forward" -> "send"
                        [] r = "ignore" -> "ignored"
                        [] OTHER -> "lifecycle")
           /\ log' = (IF r = "ignore" THEN "Ignoring command" ELSE "none")
    /\ UNCHANGED <<ctlVars, publish_timer, envVars, cmdVars, tickpc, lastPub,
                   ev, pre, sp, partVars>>

\* MPVController.send_mpv_command: a connection of its own to the socket
\* path; connect() can be refused, recv() can time out, and both raise
\* into the handler of line 400
SendMpvCommand ==
    /\ fpc = "send"
    /\ IF ~is_playing
       THEN /\ log' = "MPV is not running"
            /\ UNCHANGED sent
       ELSE \E o \in {"refused", "answered", "timeout"} :
              /\ log' = (IF o = "answered" THEN "Executed" ELSE "IPC error")
              /\ sent' = (IF o = "refused" THEN sent
                          ELSE [sent EXCEPT
                                  !.adhoc = Append(@, command \o <<"\n">>)])
    /\ fpc' = "returned"
    /\ UNCHANGED <<ctlVars, publish_timer, envVars, cmdVars, tickpc, lastPub,
                   ev, pre, sp, payload, command, walk, scans, built,
                   threads, handle,
                   socket_wait_time, socket_file, timers>>

NextDispatch == DecodePayload \/ RouteCommand \/ SendMpvCommand

SpecDispatch == InitDispatch /\ [][NextDispatch]_vars

\* the message carries a command that is a string
IsCommand(p) ==
    p.kind = "object" /\ "command" \in DOMAIN p /\ p.command.tag = "str"

\* the command is none of play, stop and clear-playlist, in any case
IsArbitrary(p) ==
    IsCommand(p) /\ p.command.str # <<>> /\ Lower(p.command.str) \notin Lifecycle

\* C11: an arbitrary command received while the player is active goes to
\* the player as it was received (one line, ended by a newline), over a
\* connection of its own and not over the observation session, and the
\* dispatcher neither changes the playback state nor publishes.
C11_ForwardedVerbatim ==
    [][(IsArbitrary(payload) /\ is_playing) =>
          /\ sent'.session = sent.session
          /\ sent' # sent =>
                sent'.adhoc = Append(sent.adhoc,
                                     payload.command.str \o <<"\n">>)
          /\ UNCHANGED <<ctlVars, lastPub>>]_vars

\* the messages that are to be ignored: no JSON, no object, no command, a
\* command that is no string or is empty, and an arbitrary command while
\* the player is not active
IsIgnored ==
    \/ ~IsCommand(payload)
    \/ payload.command.str = <<>>
    \/ IsArbitrary(payload) /\ ~is_playing

\* C12: an arbitrary command while the player is idle, an empty command and
\* an unparseable payload are ignored: nothing goes to the player, nothing
\* is published, the playback state and the handles stay, and the handler
\* ends in its "ignoring" branch or in one of its own except branches.
C12_IgnoredChangesNothing ==
    /\ [](IsIgnored => fpc \in {"recv", "route", "ignored", "caught"})
    /\ [][IsIgnored => UNCHANGED <<ctlVars, publish_timer, lastPub, sent>>]_vars

\* C12 witness: an arbitrary command was received while idle and the
\* handler has ended in its "ignoring" branch
C12_Witness ==
    /\ fpc = "ignored"
    /\ ~is_playing
    /\ payload = Object(Str(<<"cycle", " ", "pause">>))
    /\ sent = NoTraffic

(* ================================================================== *)
(* prepare_playlist on its own, the loop over os.walk one pass per     *)
(* step: SpecScan builds the playlist of a media directory drawn from  *)
(* TreesUnderTest, with force = True and no playlist file.             *)
(* ================================================================== *)
\* The directories under test:
\*   1  the root, with the subdirectories s, 10 and 2 (or "2\nn")
\*   2  s, with the subdirectory 1
\*   3  10        4  2        5  s/1
\* and two links to directories: t in the root and u in s/1.
Link(name, to) == IF to = 0 THEN {} ELSE {[name |-> name, to |-> to]}

Tree(rootFiles, sFiles, name4, t, u) ==
    [exists |-> TRUE,
     dirs |-> << Dir(rootFiles,
                     {[name |-> <<"s">>, to |-> 2],
                      [name |-> <<"1", "0">>, to |-> 3],
                      [name |-> name4, to |-> 4]} \cup Link(<<"t">>, t)),
                 Dir(sFiles, {[name |-> <<"1">>, to |-> 5]}),
                 Dir({<<"a.mp4">>}, {}),
                 Dir({<<"b.mp4">>}, {}),
                 Dir({<<"a.mp4">>, <<"n", ".txt">>}, Link(<<"u">>, u)) >>]

TreesUnderTest ==
    { Tree(rf, sf, n4, t, u) :
        rf \in {{}, {<<"a.mp4">>, <<"b.mp4">>}, {<<"b.mp4">>, <<"n", ".txt">>}},
        sf \in {{}, {<<"c.mp4">>}},
        n4 \in {<<"2">>, <<"2", "\n", "n">>},
        t \in {0, 1, 2},
        u \in {0, 1, 2, 4} }

InitScan ==
    /\ InitController
    /\ InitThreads
    /\ media_dir \in TreesUnderTest \cup {NoDir, EmptyDir}
    /\ playlist_file = NoFile
    /\ orphans = 0
    /\ now = PublishInterval
    /\ fpc = "build"
    /\ ev = [event |-> "none"]
    /\ pre = InitialState
    /\ log = "none"
    /\ sp = FALSE
    /\ InitPart

\* prepare_playlist, lines 58-82
BeginScan ==
    /\ fpc = "build"
    /\ IF media_dir.exists
       THEN /\ fpc' = "walk"
            /\ scans' = scans + 1
            /\ log' = "none"
       ELSE /\ fpc' = "failed"
            /\ scans' = scans
            /\ log' = "Playlist error"
    /\ walk' = StartWalk
    /\ UNCHANGED <<ctlVars, publish_timer, envVars, cmdVars, tickpc, lastPub,
                   ev, pre, sp, payload, command, sent, built,
                   threads, handle,
                   socket_wait_time, socket_file, timers>>

\* prepare_playlist, lines 83-105: one pass of the loop
WalkDirectory ==
    /\ fpc = "walk"
    /\ walk.stack # <<>>
    /\ walk' = WalkStep(media_dir, walk)
    /\ UNCHANGED <<ctlVars, publish_timer, envVars, cmdVars, tickpc, lastPub,
                   fpc, ev, pre, log, sp, payload, command, sent, scans,
                   built, threads, handle,
                   socket_wait_time, socket_file, timers>>

\* prepare_playlist, lines 109-123: the two sorts, the test for no files,
\* the playlist in memory and the playlist file
SortAndWrite ==
    /\ fpc = "walk"
    /\ walk.stack = <<>>
    /\ \E files \in {SortedFiles(media_dir, walk.out)} :
           IF files = <<>>
           THEN /\ fpc' = "empty"
                /\ log' = "No media files found"
                /\ UNCHANGED <<playlist, playlist_file, built>>
           ELSE /\ fpc' = "built"
                /\ log' = "Playlist created"
                /\ playlist' = files
                /\ playlist_file' = File(files)
                /\ built' = [valid |-> TRUE, list |-> files]
    /\ UNCHANGED <<mpv_process, mpv_log_handle, is_playing, current_state,
                   previous_state, ipc_socket, observation_thread,
                   stop_observation, last_publish_time, publish_timer,
                   media_dir, orphans, now, cmdVars, tickpc, lastPub, ev, pre,
                   sp, payload, command, sent, walk, scans,
                   threads, handle,
                   socket_wait_time, socket_file, timers>>

NextScan == BeginScan \/ WalkDirectory \/ SortAndWrite

\* the loop does its next pass, and the build its next statement
SpecScan == InitScan /\ [][NextScan]_vars /\ WF_vars(NextScan)

\* the parts of a path between its separators
RECURSIVE Components(_, _)
Components(path, cur) ==
    IF path = <<>> THEN <<cur>>
    ELSE IF Head(path) = Sep
    THEN <<cur>> \o Components(Tail(path), <<>>)
    ELSE Components(Tail(path), Append(cur, Head(path)))

\* os.path.realpath of the directory the names lead to from directory i
RECURSIVE Resolve(_, _, _)
Resolve(d, i, names) ==
    IF names = <<>> THEN i
    ELSE Resolve(d, (CHOOSE e \in d.dirs[i].subs : e.name = Head(names)).to,
                 Tail(names))

\* the canonical directory and the name of a file of the playlist
CanonicalFile(d, path) ==
    LET parts == Components(SubSeq(path, Len(MediaRoot) + 2, Len(path)), <<>>)
    IN  <<Resolve(d, RootId, SubSeq(parts, 1, Len(parts) - 1)),
          parts[Len(parts)]>>

IsUnderRoot(path) == Len(Components(path, <<>>)) = 3

\* C14: the built playlist is the matching files of the root in natural
\* order, followed by the matching files of the subdirectories in the order
\* of the traversal (no further sort of that list); every entry of the root
\* precedes every entry of a subdirectory.
C14_TraversalOrder ==
    fpc = "built" =>
        /\ playlist = NaturalSorted(RootFiles(media_dir)) \o walk.out
        /\ \A i, j \in 1..Len(playlist) :
              (IsUnderRoot(playlist[i]) /\ ~IsUnderRoot(playlist[j])) => i < j

\* the media directory holds a link to a directory that is reached another
\* way as well
HasLinks(d) ==
    d.exists /\ Len(d.dirs) = 5
       /\ \E e \in d.dirs[1].subs \cup d.dirs[5].subs : e.name \in {<<"t">>, <<"u">>}

\* C20: the scan ends on every directory tree, links to an ancestor or to
\* a directory reached another way included; a directory whose canonical
\* path was seen before is not descended into and lists nothing; no file of
\* a canonical directory is in the built playlist twice.
C20_ScanTerminates ==
    /\ <>(fpc \in {"built", "empty", "failed"})
    /\ [][(fpc = "walk" /\ walk.stack # <<>>
             /\ Head(walk.stack).id \in walk.visited) =>
             /\ walk'.stack = Tail(walk.stack)
             /\ walk'.out = walk.out]_vars
    /\ [](fpc = "built" =>
             \A i, j \in 1..Len(playlist) :
                CanonicalFile(media_dir, playlist[i])
                   = CanonicalFile(media_dir, playlist[j]) => i = j)

\* C20 witness: a directory with a link to the root from s/1 and a second
\* way to s has been scanned to its end
C20_Witness ==
    /\ fpc = "built"
    /\ HasLinks(media_dir)
    /\ [name |-> <<"u">>, to |-> 1] \in media_dir.dirs[5].subs
    /\ [name |-> <<"t">>, to |-> 2] \in media_dir.dirs[1].subs
    /\ Len(playlist) >= 3

(* ================================================================== *)
(* The cache of prepare_playlist: SpecCache calls prepare_playlist     *)
(* again and again, with force and without, while the media directory  *)
(* changes and the playlist file is removed (as clear-playlist does).  *)
(* ================================================================== *)
MaxScans == 2

CacheDirs ==
    { NoDir, EmptyDir, FullDir,
      Tree({<<"a.mp4">>, <<"b.mp4">>}, {<<"c.mp4">>}, <<"2">>, 0, 0),
      Tree({}, {}, <<"2", "\n", "n">>, 0, 0) }

\* the playlist file is missing, or left by something else: one line, with
\* or without a newline at its end
InitCache ==
    /\ InitController
    /\ InitThreads
    /\ media_dir \in CacheDirs
    /\ playlist_file \in {NoFile, File(<<PathB>>),
                          [exists |-> TRUE, text |-> PathB \o <<"\n">>]}
    /\ orphans = 0
    /\ now = PublishInterval
    /\ fpc = "idle"
    /\ ev = [event |-> "none"]
    /\ pre = InitialState
    /\ log = "none"
    /\ sp = FALSE
    /\ InitPart

\* prepare_playlist is called: with force = False by handle_play_command
\* (line 406), with force = True by on_message (line 513) and by
\* start_mpv_drm (line 262)
CallBuild ==
    /\ fpc = "idle"
    /\ fpc' \in {"unforced", "forced"}
    /\ UNCHANGED <<ctlVars, publish_timer, envVars, cmdVars, tickpc, lastPub,
                   ev, pre, log, sp, partVars>>

\* MPVController.prepare_playlist(force)
BuildPlaylist ==
    /\ fpc \in {"unforced", "forced"}
    /\ LET r == prepare_playlist(fpc = "forced", playlist, playlist_file,
                                 media_dir)
         IN  /\ r.scanned => scans < MaxScans
             /\ playlist' = r.playlist
             /\ playlist_file' = r.file
             /\ scans' = (IF r.scanned THEN scans + 1 ELSE scans)
             /\ built' = (IF r.scanned /\ r.ok
                          THEN [valid |-> TRUE, list |-> r.playlist]
                          ELSE built)
             /\ log' = (CASE ~r.scanned /\ r.ok -> "Using existing playlist"
                          [] r.scanned /\ r.ok -> "Playlist created"
                          [] r.scanned /\ ~r.ok -> "No media files found"
                          [] OTHER -> "Playlist error")
    /\ fpc' = "built"
    /\ UNCHANGED <<mpv_process, mpv_log_handle, is_playing, current_state,
                   previous_state, ipc_socket, observation_thread,
                   stop_observation, last_publish_time, publish_timer,
                   media_dir, orphans, now, cmdVars, tickpc, lastPub, ev, pre,
                   sp, payload, command, sent, walk,
                   threads, handle,
                   socket_wait_time, socket_file, timers>>

\* prepare_playlist returns
BuildReturns ==
    /\ fpc = "built"
    /\ fpc' = "idle"
    /\ UNCHANGED <<ctlVars, publish_timer, envVars, cmdVars, tickpc, lastPub,
                   ev, pre, log, sp, partVars>>

\* files come and go in the media directory
MediaChanges ==
    /\ fpc = "idle"
    /\ media_dir' \in CacheDirs \ {media_dir}
    /\ UNCHANGED <<ctlVars, publish_timer, playlist_file, orphans, now,
                   cmdVars, tickpc, lastPub, fnVars>>

\* on_message, lines 506-510: the playlist file is removed
RemovePlaylistFile ==
    /\ fpc = "idle"
    /\ playlist_file.exists
    /\ playlist_file' = NoFile
    /\ built' = NoBuild
    /\ UNCHANGED <<ctlVars, publish_timer, media_dir, orphans, now, cmdVars,
                   tickpc, lastPub, fpc, ev, pre, log, sp, payload, command,
                   sent, walk, scans,
                   threads, handle,
                   socket_wait_time, socket_file, timers>>

NextCache ==
    CallBuild \/ BuildPlaylist \/ BuildReturns \/ MediaChanges
       \/ RemovePlaylistFile

SpecCache == InitCache /\ [][NextCache]_vars

\* the lines of a text as they stand, a newline at the end of the text
\* beginning no further line
VerbatimLines(text) ==
    LET ls == SplitLines(text, <<>>)
    IN  IF ls[Len(ls)] = <<>> THEN SubSeq(ls, 1, Len(ls) - 1) ELSE ls

\* a build with force = False while the playlist file exists
CachedBuild == fpc = "unforced" /\ fpc' = "built" /\ playlist_file.exists

\* C15: a build with force = False while the playlist file exists scans
\* nothing and returns the lines of the file, stale or not; after a build
\* that scanned has written the file, every such build returns the list
\* that build returned; the file is written by no build that does not scan.
C15_CacheReturnsBuiltList ==
    /\ [][CachedBuild =>
             /\ scans' = scans
             /\ playlist' = VerbatimLines(playlist_file.text)
             /\ playlist_file' = playlist_file]_vars
    /\ [][(CachedBuild /\ built.valid) => playlist' = built.list]_vars
    /\ [][(fpc' = "built" /\ playlist_file' # playlist_file) =>
             scans' = scans + 1]_vars

(* ================================================================== *)
(* The three threads statement by statement: SpecRace runs play and    *)
(* stop with stop_mpv and the writes of start_mpv_drm one statement    *)
(* per step (the position of the bus loop thread is the line it is     *)
(* about to run), every observation thread on its own, and the tick.   *)
(* The player always starts; the playlist is in place.                 *)
(* ================================================================== *)
Malformed == [event |-> "malformed"]

Alive(t) == threads[t].pc \in {"loop", "fold"}
FreeThreads == {t \in 1..MaxThreads : ~Alive(t)}

\* the variables this part leaves alone
quietVars == <<mpv_log_handle, playlist, publish_timer, media_dir,
               playlist_file, orphans, now, afterStop, cmdOutcome, fpc, ev,
               pre, log, sp, payload, command, sent, walk, scans, built,
               socket_wait_time, socket_file, timers>>

InitRace ==
    /\ mpv_process = "none"
    /\ mpv_log_handle = "none"
    /\ playlist = FileOrder
    /\ is_playing = FALSE
    /\ current_state = InitialState
    /\ previous_state = InitialState
    /\ ipc_socket = "none"
    /\ observation_thread = "none"
    /\ stop_observation = FALSE
    /\ last_publish_time = PublishInterval
    /\ publish_timer = "pending"
    /\ InitThreads
    /\ media_dir = FullDir
    /\ playlist_file = File(FileOrder)
    /\ orphans = 0
    /\ now = PublishInterval
    /\ InitFn

\* on_message, lines 482-496: a play or a stop is received.  A play needs
\* a thread of the model for its observation.
RaceCommand(c) ==
    /\ cmdpc = "idle"
    /\ c = "play" => FreeThreads # {}
    /\ cmd' = c
    /\ cmdpc' = (IF c = "play" THEN "l256" ELSE "l351")
    /\ UNCHANGED <<ctlVars, quietVars, tickpc, lastPub, threads, handle>>

\* stop_mpv, line 351
SetStopFlag ==
    /\ cmdpc = "l351"
    /\ stop_observation' = TRUE
    /\ cmdpc' = "l353"
    /\ UNCHANGED <<mpv_process, is_playing, current_state, previous_state,
                   ipc_socket, observation_thread, last_publish_time,
                   quietVars, cmd, tickpc, lastPub, threads, handle>>

\* stop_mpv, lines 353-354: join returns at once without a live thread
\* behind observation_thread, and else when that thread has ended
JoinThread ==
    /\ cmdpc = "l353"
    /\ IF handle = 0 THEN TRUE ELSE ~Alive(handle)
    /\ cmdpc' = "l357"
    /\ UNCHANGED <<ctlVars, quietVars, cmd, tickpc, lastPub, threads, handle>>

\* stop_mpv, line 354: join(timeout=2.0) returns after two seconds with
\* the thread still running; nothing is tested after it
JoinTimeout ==
    /\ cmdpc = "l353"
    /\ IF handle = 0 THEN FALSE ELSE Alive(handle)
    /\ cmdpc' = "l357"
    /\ UNCHANGED <<ctlVars, quietVars, cmd, tickpc, lastPub, threads, handle>>

\* stop_mpv, lines 357-362
CloseSocket ==
    /\ cmdpc = "l357"
    /\ ipc_socket' = "none"
    /\ cmdpc' = "l365"
    /\ UNCHANGED <<mpv_process, is_playing, current_state, previous_state,
                   observation_thread, stop_observation, last_publish_time,
                   quietVars, cmd, tickpc, lastPub, threads, handle>>

\* stop_mpv, lines 365-376: without a handle the rest of stop_mpv is
\* skipped
Terminate ==
    /\ cmdpc = "l365"
    /\ cmdpc' = (IF mpv_process = "none" THEN "publish" ELSE "l377")
    /\ mpv_process' = "none"
    /\ UNCHANGED <<is_playing, current_state, previous_state, ipc_socket,
                   observation_thread, stop_observation, last_publish_time,
                   quietVars, cmd, tickpc, lastPub, threads, handle>>

\* stop_mpv, lines 377-382, one assignment per step
StopWrite ==
    /\ cmdpc \in {"l377", "l378", "l379", "l380", "l381", "l382"}
    /\ is_playing' = (IF cmdpc = "l377" THEN FALSE ELSE is_playing)
    /\ current_state' =
          (CASE cmdpc = "l378" -> [current_state EXCEPT !.state = "idle"]
             [] cmdpc = "l379" ->
                  [current_state EXCEPT !.media_content_id = None]
             [] cmdpc = "l380" -> [current_state EXCEPT !.media_title = None]
             [] cmdpc = "l381" -> [current_state EXCEPT !.position = 0]
             [] cmdpc = "l382" -> [current_state EXCEPT !.duration = 0]
             [] OTHER -> current_state)
    /\ cmdpc' = (CASE cmdpc = "l377" -> "l378"
                   [] cmdpc = "l378" -> "l379"
                   [] cmdpc = "l379" -> "l380"
                   [] cmdpc = "l380" -> "l381"
                   [] cmdpc = "l381" -> "l382"
                   [] OTHER -> "publish")
    /\ UNCHANGED <<mpv_process, previous_state, ipc_socket,
                   observation_thread, stop_observation, last_publish_time,
                   quietVars, cmd, tickpc, lastPub, threads, handle>>

\* start_mpv_drm, lines 256-328: a live player is left alone; else the
\* player is spawned and the session is connected
StartProcess ==
    /\ cmdpc = "l256"
    /\ IF mpv_process = "running"
       THEN /\ cmdpc' = "publish"
            /\ UNCHANGED <<mpv_process, ipc_socket>>
       ELSE /\ cmdpc' = "l329"
            /\ mpv_process' = "running"
            /\ ipc_socket' = "connected"
    /\ UNCHANGED <<is_playing, current_state, previous_state,
                   observation_thread, stop_observation, last_publish_time,
                   quietVars, cmd, tickpc, lastPub, threads, handle>>

\* start_mpv_drm, lines 329-332, one assignment per step
StartWrite ==
    /\ cmdpc \in {"l329", "l330", "l331", "l332"}
    /\ is_playing' = (IF cmdpc = "l329" THEN TRUE ELSE is_playing)
    /\ current_state' =
          (CASE cmdpc = "l330" -> [current_state EXCEPT !.state = "playing"]
             [] cmdpc = "l331" ->
                  [current_state EXCEPT
                     !.media_content_id =
                        StartFields(current_state, playlist).media_content_id]
             [] cmdpc = "l332" ->
                  [current_state EXCEPT
                     !.media_title =
                        StartFields(current_state, playlist).media_title]
             [] OTHER -> current_state)
    /\ cmdpc' = (CASE cmdpc = "l329" -> "l330"
                   [] cmdpc = "l330" -> "l331"
                   [] cmdpc = "l331" -> "l332"
                   [] OTHER -> "l335")
    /\ UNCHANGED <<mpv_process, previous_state, ipc_socket,
                   observation_thread, stop_observation, last_publish_time,
                   quietVars, cmd, tickpc, lastPub, threads, handle>>

\* start_mpv_drm, line 335: start_observation_thread, lines 173-179
StartThread ==
    /\ cmdpc = "l335"
    /\ stop_observation' = FALSE
    /\ \E t \in FreeThreads :
          /\ threads' = [threads EXCEPT ![t] = [pc |-> "loop", held |-> NoEvent]]
          /\ handle' = t
    /\ observation_thread' = "alive"
    /\ cmdpc' = "publish"
    /\ UNCHANGED <<mpv_process, is_playing, current_state, previous_state,
                   ipc_socket, last_publish_time, quietVars, cmd, tickpc,
                   lastPub>>

\* the thread t has ended
Ended(t) == [threads EXCEPT ![t] = [pc |-> "dead", held |-> NoEvent]]

\* observe_properties, lines 184-202: the test of the loop, select and
\* recv.  The thread ends on the test, or when the window passes with no
\* data and the player is not marked active; else it has read a line, or
\* goes round.
ThreadPoll(t) ==
    /\ threads[t].pc = "loop"
    /\ \/ /\ stop_observation \/ ipc_socket = "none"
          /\ threads' = Ended(t)
       \/ /\ ~stop_observation /\ ipc_socket # "none"
          /\ \E e \in EventsSeen \cup {Malformed} :
                threads' = [threads EXCEPT ![t] = [pc |-> "fold", held |-> e]]
       \/ /\ ~stop_observation /\ ipc_socket # "none"
          /\ threads' = (IF is_playing THEN threads ELSE Ended(t))
    /\ observation_thread' =
          (IF handle = t /\ threads'[t].pc = "dead" THEN "dead"
           ELSE observation_thread)
    /\ UNCHANGED <<mpv_process, is_playing, current_state, previous_state,
                   ipc_socket, stop_observation, last_publish_time, quietVars,
                   cmdpc, cmd, tickpc, lastPub, handle>>

\* observe_properties, lines 193-199: json.loads and process_event; a line
\* that is no JSON is printed and skipped
ThreadFold(t) ==
    /\ threads[t].pc = "fold"
    /\ current_state' =
          (IF threads[t].held = Malformed THEN current_state
           ELSE process_event(current_state, threads[t].held).state)
    /\ threads' = [threads EXCEPT ![t] = [pc |-> "loop", held |-> NoEvent]]
    /\ UNCHANGED <<mpv_process, is_playing, previous_state, ipc_socket,
                   observation_thread, stop_observation, last_publish_time,
                   quietVars, cmdpc, cmd, tickpc, lastPub, handle>>

NextRace ==
    \/ \E c \in {"play", "stop"} : RaceCommand(c)
    \/ SetStopFlag
    \/ JoinThread
    \/ JoinTimeout
    \/ CloseSocket
    \/ Terminate
    \/ StopWrite
    \/ StartProcess
    \/ StartWrite
    \/ StartThread
    \/ CmdPublish
    \/ CmdRecord
    \/ CmdReturn
    \/ \E t \in 1..MaxThreads : ThreadPoll(t)
    \/ \E t \in 1..MaxThreads : ThreadFold(t)
    \/ TickCheck
    \/ TickPublish
    \/ TickRecord
    \/ ProcessExits

SpecRace == InitRace /\ [][NextRace]_vars

\* an observation thread folds the line it holds
FoldStep == \E t \in 1..MaxThreads : threads[t].pc = "fold" /\ threads'[t].pc = "loop"

\* stop_mpv has closed the session and ends the process, or has ended it
\* and no start has followed
TornDown == cmdpc = "l365" \/ mpv_process = "none"

\* C16: stop_mpv waits for the observation thread before it closes the
\* session and ends the process: no line is folded into the playback state
\* while stop_mpv tears down or after it has, and no fold changes the
\* playback state after stop_mpv has reset it.
C16_NoFoldAfterTeardown ==
    [][FoldStep => ~TornDown]_vars

\* the bus loop thread is between the first and the last write of the
\* reset of stop_mpv, or of the writes of start_mpv_drm
MidWrite == cmdpc \in {"l379", "l380", "l381", "l382", "l331", "l332"}

PublishStep ==
    \/ tickpc = "publish" /\ tickpc' = "record"
    \/ cmdpc = "publish" /\ cmdpc' = "record"

\* C17: the three threads are serialized on the playback state: no document
\* is published, by the tick or by a command, while the writes of a reset
\* or of a start are partly done.
C17_PublishSeesWholeState ==
    [][PublishStep => ~MidWrite]_vars

\* the observation threads that run
AliveThreads == {t \in 1..MaxThreads : Alive(t)}

\* start_observation_thread starts a thread in this step
ThreadStarted == \E t \in 1..MaxThreads : ~Alive(t) /\ Alive(t)'

\* C22: at most one observation thread is alive at any time; a thread is
\* started only when every earlier one has ended, and no thread that was
\* alive when stop_observation was set is alive after the flag is cleared
\* for a new thread.
C22_OneObserver ==
    /\ [](Cardinality(AliveThreads) <= 1)
    /\ [][ThreadStarted => AliveThreads = {}]_vars
    /\ [][(stop_observation /\ ~stop_observation') =>
             \A t \in AliveThreads : ~Alive(t)']_vars

(* ================================================================== *)
(* start_mpv_drm on its own, with the wait for the control socket one   *)
(* turn of its loop per step: SpecStart.  Times are in tenths of a      *)
(* second; 0.5 and its multiples are exact in binary floating point,    *)
(* so the sums of line 321 are exact.                                   *)
(* ================================================================== *)
SocketPoll == 5
SocketCeiling == 100
MaxPolls == SocketCeiling \div SocketPoll

\* the test of the loop with the ceiling included
KeepWaiting_Inclusive(file, t) == file = "absent" /\ t <= SocketCeiling

\* line 319: the test of the loop
KeepWaiting(file, t) == file = "absent" /\ t < SocketCeiling

\* start_mpv_drm is called on a new controller, after a stop, with a
\* player that runs, or with a player that has exited by itself and has
\* left the session, the thread and the active mark behind
InitStart ==
    /\ \E before \in {"new", "running", "exited"}, p \in 0..1 :
          /\ before = "new" => p = 0
          /\ mpv_process = (IF before = "new" THEN "none" ELSE before)
          /\ mpv_log_handle = (IF before = "new" THEN "none" ELSE "open")
          /\ is_playing = (before # "new")
          /\ current_state =
                (IF before = "new" THEN InitialState
                 ELSE [StartFields(InitialState, FileOrder)
                          EXCEPT !.position = p])
          /\ ipc_socket = (IF before = "new" THEN "none" ELSE "connected")
          /\ observation_thread = (IF before = "new" THEN "none" ELSE "alive")
          /\ threads =
                (IF before = "new" THEN NoThreads
                 ELSE [NoThreads EXCEPT
                          ![1] = [pc |-> "loop", held |-> NoEvent]])
          /\ handle = (IF before = "new" THEN 0 ELSE 1)
          /\ socket_file = (IF before = "new" THEN "absent" ELSE "present")
    /\ playlist = FileOrder
    /\ previous_state = current_state
    /\ stop_observation = FALSE
    /\ last_publish_time = PublishInterval
    /\ publish_timer = "pending"
    /\ InitThreads
    /\ media_dir = FullDir
    /\ playlist_file = File(FileOrder)
    /\ orphans = 0
    /\ now = PublishInterval
    /\ fpc = "l256"
    /\ ev = NoEvent
    /\ pre = current_state
    /\ log = "none"
    /\ sp = FALSE
    /\ payload = NoPayload
    /\ command = <<>>
    /\ sent = NoTraffic
    /\ walk = StartWalk
    /\ scans = 0
    /\ built = NoBuild
    /\ socket_wait_time = 0
    /\ timers = NoTimers

\* what the steps of start_mpv_drm before line 328 leave alone
sessionVars == <<is_playing, current_state, ipc_socket, observation_thread,
                 stop_observation, threads, handle>>
restVars == <<playlist, previous_state, last_publish_time, publish_timer,
              media_dir, playlist_file, orphans, now, cmdVars, tickpc,
              lastPub, ev, pre, sp, payload, command, sent, walk, scans,
              built, timers>>

\* start_mpv_drm, lines 256-317: a player that runs is left alone; else the
\* old socket file is removed, the log is opened and the player is spawned,
\* or Popen raises and lines 343-347 run
SpawnPlayer ==
    /\ fpc = "l256"
    /\ IF mpv_process = "running"
       THEN /\ log' = "MPV is already running"
            /\ fpc' = "started"
            /\ UNCHANGED <<mpv_process, mpv_log_handle, sessionVars,
                           socket_wait_time, socket_file>>
       ELSE /\ socket_file' = "absent"
            /\ mpv_log_handle' = "open"
            /\ \/ /\ mpv_process' = "running"
                  /\ socket_wait_time' = 0
                  /\ fpc' = "l319"
                  /\ UNCHANGED <<log, sessionVars>>
               \/ /\ is_playing' = FALSE
                  /\ current_state' = StartFailed(current_state)
                  /\ log' = "MPV start failed"
                  /\ fpc' = "failed"
                  /\ UNCHANGED <<mpv_process, socket_wait_time, ipc_socket,
                                 observation_thread, stop_observation,
                                 threads, handle>>
    /\ UNCHANGED restVars

\* the player that was spawned creates its control socket
SocketAppears ==
    /\ fpc \in {"l319", "l323"}
    /\ mpv_process = "running"
    /\ socket_file = "absent"
    /\ socket_file' = "present"
    /\ UNCHANGED <<mpv_process, mpv_log_handle, sessionVars, socket_wait_time,
                   fpc, log, restVars>>

\* start_mpv_drm, lines 319-321: one test of the loop, and one sleep when
\* it passes
PollSocket ==
    /\ fpc = "l319"
    /\ IF KeepWaiting(socket_file, socket_wait_time)
       THEN /\ socket_wait_time' = socket_wait_time + SocketPoll
            /\ fpc' = "l319"
       ELSE /\ fpc' = "l323"
            /\ UNCHANGED socket_wait_time
    /\ UNCHANGED <<mpv_process, mpv_log_handle, sessionVars, socket_file, log,
                   restVars>>

\* start_mpv_drm, lines 323-341: without the socket the start fails; else
\* the session is set up and the thread started, or the connection fails
ConnectOrFail ==
    /\ fpc = "l323"
    /\ IF socket_file = "absent"
       THEN /\ log' = "MPV socket not created after 10 seconds"
            /\ fpc' = "timeout"
            /\ UNCHANGED sessionVars
       ELSE \/ /\ ipc_socket' = "connected"
               /\ is_playing' = TRUE
               /\ current_state' = StartFields(current_state, playlist)
               /\ stop_observation' = FALSE
               /\ \E t \in FreeThreads :
                     /\ threads' = [threads EXCEPT
                                       ![t] = [pc |-> "loop", held |-> NoEvent]]
                     /\ handle' = t
               /\ observation_thread' = "alive"
               /\ log' = "MPV started successfully with property observation"
               /\ fpc' = "started"
            \/ /\ ipc_socket' = "unconnected"
               /\ log' = "Failed to setup IPC connection"
               /\ fpc' = "ipc_error"
               /\ UNCHANGED <<is_playing, current_state, observation_thread,
                              stop_observation, threads, handle>>
    /\ UNCHANGED <<mpv_process, mpv_log_handle, socket_wait_time, socket_file,
                   restVars>>

NextStart ==
    \/ SpawnPlayer
    \/ SocketAppears
    \/ PollSocket
    \/ ConnectOrFail
    \/ ProcessExits

SpecStart == InitStart /\ [][NextStart]_vars

\* one sleep of the wait
Polled == fpc = "l319" /\ socket_wait_time' # socket_wait_time

NextObserver ==
    \/ \E c \in {"play", "stop"} : RaceCommand(c)
    \/ SetStopFlag
    \/ JoinThread
    \/ JoinTimeout
    \/ CloseSocket
    \/ Terminate
    \/ StopWrite
    \/ StartProcess
    \/ StartWrite
    \/ StartThread
    \/ CmdPublish
    \/ CmdRecord
    \/ CmdReturn
    \/ \E t \in 1..MaxThreads : ThreadPoll(t)
    \/ \E t \in 1..MaxThreads : ThreadFold(t)
    \/ ProcessExits

FairThreads ==
    \A t \in 1..MaxThreads :
        WF_vars(ThreadPoll(t)) /\ WF_vars(ThreadFold(t))

\* the bus loop thread goes on with the command it handles
FairCommand ==
    WF_vars(SetStopFlag \/ JoinThread \/ JoinTimeout \/ CloseSocket
            \/ Terminate \/ StopWrite \/ StartProcess \/ StartWrite
            \/ StartThread \/ CmdPublish \/ CmdRecord \/ CmdReturn)

SpecObserver ==
    InitRace /\ [][NextObserver]_vars /\ FairThreads /\ FairCommand

\* the thread t ends in this step
Ends(t) == Alive(t) /\ ~Alive(t)'

\* C19: an observation thread that runs when stop_observation is set ends
\* in the end; a thread ends only on the test of its loop (the flag is set
\* or the session is gone) or on a window without data while the player is
\* not marked active, and else keeps running; a thread that holds a line,
\* malformed or not, goes back to its loop.
C19_ObserverTerminates ==
    /\ \A t \in 1..MaxThreads :
          (stop_observation /\ Alive(t)) ~> ~Alive(t)
    /\ [][\A t \in 1..MaxThreads :
             /\ Ends(t) => /\ threads[t].pc = "loop"
                           /\ \/ stop_observation
                              \/ ipc_socket = "none"
                              \/ ~is_playing
             /\ threads[t].pc = "fold" => threads'[t].pc \in {"fold", "loop"}
         ]_vars

(* ================================================================== *)
(* The periodic tick Timer by Timer: SpecTimer.  run() connects and     *)
(* serves the bus loop, on_connect runs on every connection, every      *)
(* Timer is a thread of its own, and start_publish_timer is run one     *)
(* statement per step by whoever calls it.  cmdpc is the line the main  *)
(* thread is about to run; publish_timer is the Timer the attribute     *)
(* refers to.                                                           *)
(*                                                                      *)
(* threading.Timer: run() waits on the event finished for the interval  *)
(* and calls the function if the event is not set; cancel() sets the    *)
(* event, which ends a Timer that waits and does nothing to one whose   *)
(* function runs; start() on a Timer that was started raises            *)
(* RuntimeError.                                                        *)
(* ================================================================== *)
\* a Timer object that is garbage can give its place to a new one
FreeTimers ==
    {i \in 1..MaxTimers :
        timers[i].st \in {"free", "ended"} /\ i # publish_timer}

\* Timer.cancel() on the Timer i (None when i is 0)
Cancelled(i) ==
    IF i = 0 THEN timers
    ELSE [timers EXCEPT
            ![i].finished = TRUE,
            ![i].st = IF timers[i].st = "waiting" THEN "ended"
                      ELSE timers[i].st]

\* Timer.start() on the Timer i
Started(i) ==
    [timers EXCEPT
       ![i].st = IF timers[i].finished THEN "ended" ELSE "waiting"]

timerQuiet == <<mpv_process, mpv_log_handle, playlist, is_playing,
                current_state, ipc_socket, observation_thread,
                stop_observation, envVars, cmd, afterStop, cmdOutcome, tickpc,
                fpc, ev, pre, log, sp, payload, command, sent, walk, scans,
                built, threads, handle, socket_wait_time, socket_file>>

InitTimer ==
    /\ \E active \in BOOLEAN :
          /\ mpv_process = (IF active THEN "running" ELSE "none")
          /\ mpv_log_handle = (IF active THEN "open" ELSE "none")
          /\ is_playing = active
          /\ current_state = (IF active
                              THEN StartFields(InitialState, FileOrder)
                              ELSE InitialState)
          /\ ipc_socket = (IF active THEN "connected" ELSE "none")
          /\ observation_thread = (IF active THEN "alive" ELSE "none")
    /\ playlist = FileOrder
    /\ previous_state = InitialState
    /\ stop_observation = FALSE
    /\ last_publish_time = PublishInterval
    /\ publish_timer = 0
    /\ media_dir = FullDir
    /\ playlist_file = File(FileOrder)
    /\ orphans = 0
    /\ now = PublishInterval
    /\ cmdpc = "l550"
    /\ cmd = "none"
    /\ afterStop = FALSE
    /\ cmdOutcome = "none"
    /\ tickpc = "idle"
    /\ lastPub = [doc |-> NoDoc, by |-> "none", active |-> FALSE]
    /\ InitFn

\* run, lines 550-554: connect and enter loop_forever, or the connection
\* fails and the finally clause runs
ConnectBroker ==
    /\ cmdpc = "l550"
    /\ cmdpc' \in {"idle", "l562"}
    /\ UNCHANGED <<previous_state, last_publish_time, publish_timer, lastPub,
                   timers, timerQuiet>>

\* on_connect, lines 430-443, on the first and on every later connection:
\* with rc 0 the state is published and start_publish_timer is called
OnConnectAgain ==
    /\ cmdpc = "idle"
    /\ \/ /\ lastPub' = Published("connect")
          /\ cmdpc' = "l447"
       \/ UNCHANGED <<lastPub, cmdpc>>
    /\ UNCHANGED <<previous_state, last_publish_time, publish_timer, timers,
                   timerQuiet>>

\* start_publish_timer called by on_connect, lines 447-448
LoopCancelsOld ==
    /\ cmdpc = "l447"
    /\ timers' = Cancelled(publish_timer)
    /\ cmdpc' = "l450"
    /\ UNCHANGED <<previous_state, last_publish_time, publish_timer, lastPub,
                   timerQuiet>>

\* lines 450-451
LoopCreatesTimer ==
    /\ cmdpc = "l450"
    /\ \E j \in FreeTimers :
          /\ timers' = [timers EXCEPT
                          ![j] = [st |-> "created", finished |-> FALSE,
                                  pc |-> "none"]]
          /\ publish_timer' = j
    /\ cmdpc' = "l452"
    /\ UNCHANGED <<previous_state, last_publish_time, lastPub, timerQuiet>>

\* line 452; RuntimeError leaves loop_forever and run
LoopStartsTimer ==
    /\ cmdpc = "l452"
    /\ IF timers[publish_timer].st = "created"
       THEN /\ timers' = Started(publish_timer)
            /\ cmdpc' = "idle"
       ELSE /\ cmdpc' = "l562"
            /\ UNCHANGED timers
    /\ UNCHANGED <<previous_state, last_publish_time, publish_timer, lastPub,
                   timerQuiet>>

\* the interval of the Timer i has passed and its event is not set:
\* check_and_publish_state is called
Fire(i) ==
    /\ cmdpc # "gone"
    /\ timers[i].st = "waiting"
    /\ ~timers[i].finished
    /\ timers' = [timers EXCEPT ![i].st = "running", ![i].pc = "l458"]
    /\ UNCHANGED <<previous_state, last_publish_time, publish_timer, lastPub,
                   cmdpc, timerQuiet>>

\* check_and_publish_state, lines 457-463
TickBody(i) ==
    /\ cmdpc # "gone"
    /\ timers[i].pc = "l458"
    /\ IF is_playing /\ should_publish_state(current_state, previous_state,
                                             last_publish_time, now)
       THEN /\ lastPub' = Published("tick")
            /\ previous_state' = current_state
            /\ last_publish_time' = now
       ELSE UNCHANGED <<lastPub, previous_state, last_publish_time>>
    /\ timers' = [timers EXCEPT ![i].pc = "l447"]
    /\ UNCHANGED <<publish_timer, cmdpc, timerQuiet>>

\* start_publish_timer called by the tick at line 466, lines 447-448
TickCancelsOld(i) ==
    /\ cmdpc # "gone"
    /\ timers[i].pc = "l447"
    /\ timers' = [Cancelled(publish_timer) EXCEPT ![i].pc = "l450"]
    /\ UNCHANGED <<previous_state, last_publish_time, publish_timer, lastPub,
                   cmdpc, timerQuiet>>

\* lines 450-451
TickCreatesTimer(i) ==
    /\ cmdpc # "gone"
    /\ timers[i].pc = "l450"
    /\ \E j \in FreeTimers :
          /\ timers' = [timers EXCEPT
                          ![j] = [st |-> "created", finished |-> FALSE,
                                  pc |-> "none"],
                          ![i].pc = "l452"]
          /\ publish_timer' = j
    /\ UNCHANGED <<previous_state, last_publish_time, lastPub, cmdpc,
                   timerQuiet>>

\* line 452, after which the function and the thread of the Timer i end;
\* RuntimeError ends them as well
TickStartsTimer(i) ==
    /\ cmdpc # "gone"
    /\ timers[i].pc = "l452"
    /\ timers' =
          [(IF timers[publish_timer].st = "created"
            THEN Started(publish_timer) ELSE timers)
             EXCEPT ![i].st = "ended", ![i].finished = TRUE,
                    ![i].pc = "none"]
    /\ UNCHANGED <<previous_state, last_publish_time, publish_timer, lastPub,
                   cmdpc, timerQuiet>>

\* KeyboardInterrupt in the main thread, lines 559-560
Interrupt ==
    /\ cmdpc \in {"idle", "l447", "l450", "l452"}
    /\ cmdpc' = "l562"
    /\ UNCHANGED <<previous_state, last_publish_time, publish_timer, lastPub,
                   timers, timerQuiet>>

\* run, lines 561-563
CancelOnExit ==
    /\ cmdpc = "l562"
    /\ timers' = Cancelled(publish_timer)
    /\ cmdpc' = "l575"
    /\ UNCHANGED <<previous_state, last_publish_time, publish_timer, lastPub,
                   timerQuiet>>

\* lines 574-576: stop_mpv, and the interpreter exits and takes the daemon
\* threads with it
ProcessEnds ==
    /\ cmdpc = "l575"
    /\ cmdpc' = "gone"
    /\ UNCHANGED <<previous_state, last_publish_time, publish_timer, lastPub,
                   timers, timerQuiet>>

NextTimer ==
    \/ ConnectBroker
    \/ OnConnectAgain
    \/ LoopCancelsOld
    \/ LoopCreatesTimer
    \/ LoopStartsTimer
    \/ \E i \in 1..MaxTimers : Fire(i)
    \/ \E i \in 1..MaxTimers : TickBody(i)
    \/ \E i \in 1..MaxTimers : TickCancelsOld(i)
    \/ \E i \in 1..MaxTimers : TickCreatesTimer(i)
    \/ \E i \in 1..MaxTimers : TickStartsTimer(i)
    \/ Interrupt
    \/ CancelOnExit
    \/ ProcessEnds

SpecTimer == InitTimer /\ [][NextTimer]_vars

\* the body of a tick runs
TickRuns == \E i \in 1..MaxTimers : timers[i].pc = "l458" /\ timers'[i].pc # "l458"

\* a Timer is started and waits
TickScheduled ==
    \E i \in 1..MaxTimers : timers[i].st # "waiting" /\ timers'[i].st = "waiting"

\* C21: once run() has cancelled the timer in its finally clause, no tick
\* runs and no Timer is started, whether a tick was pending or was
\* executing when the timer was cancelled.
C21_TickCancelledOnShutdown ==
    [][cmdpc = "l575" => ~TickRuns /\ ~TickScheduled]_vars

\* pending Timers, and ticks that execute and will start a Timer
TickChains ==
    {i \in 1..MaxTimers : timers[i].st \in {"waiting", "running"}}

\* C23: at most one tick chain exists at any time: the pending Timers and
\* the executing ticks that will start a Timer are never more than one,
\* also when on_connect runs again while a tick is pending or executing.
C23_OneTickChain ==
    Cardinality(TickChains) <= 1

====
